---- MODULE Spec2Model ----
(***************************************************************************)
(* The paginated sync scripts of "Shapefile Uploads": one run of a script  *)
(* is count -> (clear) -> { fetch page -> transform -> upload -> pause }   *)
(* against a remote feature source and the keyed destination table         *)
(* 'parcels'.  The scripts are sequential; pc is the position of the run.  *)
(***************************************************************************)
EXTENDS Integers, Sequences, FiniteSets, TLC

\* batch_size = 1000 in every script; the model runs the same loop with a
\* small page so that several pages, partial pages and limits inside a page
\* all occur.
BatchSize == 2
\* The most records the source reports in its count answer.
MaxCount == 4
\* Most records the source reports when runs are compared.
RerunCount == 3

\* Natural keys (apn).  NoKey is a missing, None or '' identifier.
Apns == {"A", "B"}
NoKey == ""

\* What becomes of a feature further down the pipeline:
\*   ok       transforms and is accepted by the destination
\*   raises   transform_parcel_to_supabase / extract_lir_fields raises on it
\*   column   the destination rejects the record with an error whose message
\*            contains 'column' (null value in column ..., could not find
\*            the ... column ...)
\*   rejected the destination rejects the record with any other error
Kinds == {"ok", "raises", "column", "rejected"}

Features ==
    {f \in [apn : Apns \cup {NoKey}, kind : Kinds] :
        f.apn = NoKey => f.kind = "ok"}

\* The pages a fetch may return: 1..n features.
Pages(n) == UNION {[1..m -> Features] : m \in 1..n}

\* The bodies a page query may be answered with: a page when the answer is
\* one with features, nothing to read otherwise.
Bodies(answer, pages) == IF answer = "features" THEN pages ELSE {<<>>}

\* The features that tell runs over one source apart: those that reach the
\* destination, accepted or refused by it.
RerunFeatures == {f \in Features : f.kind # "raises" /\ f.apn # NoKey}
RerunPages(n) == UNION {[1..m -> RerunFeatures] : m \in 1..n}

\* The LIR source also serves features whose TOTAL_MKT_VALUE is a string that
\* is no number (kind "text"); they have a key and transform without raising.
\* One key is enough for them: what they do does not depend on it.
LirFeatures == Features \cup [apn : {"A"}, kind : {"text"}]
LirPages(n) == UNION {[1..m -> LirFeatures] : m \in 1..n}

\* sync_api   sync_parcels_from_utah_api.py      (batch upsert)
\* sync_lir   sync_parcels_from_utah_lir_api.py  (insert per record)
\* lir_slow   update_parcels_with_lir.py         (update per record)
\* lir_fast   update_parcels_with_lir_fast.py    (batch upsert, then update)
\* lir_ultra  update_parcels_with_lir_ultra_fast.py (server-side function)
SyncScripts == {"sync_api", "sync_lir"}
LirScripts == {"lir_slow", "lir_fast", "lir_ultra"}
Scripts == SyncScripts \cup LirScripts

\* A source record is identified by its index in the source (offset + place
\* in the page); the destination columns it writes hold that index.  0 is
\* NULL and OldValue is what a row held before the run.
OldValue == MaxCount + 1

\* A destination row per key: n rows carry the key (0: none), `others' the
\* columns outside the LIR merge set (owner_*, address, city, geom, ...),
\* `lir' the LIR columns (prop_class, bldg_sqft, ..., tax_dist).
EmptyRow == [n |-> 0, others |-> 0, lir |-> 0]
OldRow == [n |-> 1, others |-> OldValue, lir |-> OldValue]
\* The table holds at most one row for an apn (its unique index) and any
\* number of rows whose apn is NULL, counted under NoKey.
Keys == Apns \cup {NoKey}
EmptyTable == [k \in Keys |-> EmptyRow]
\* The tables a run may find: a row for each of some of OldApns.
OldApns == {"A"}
FirstTables ==
    {t \in [Keys -> {EmptyRow, OldRow}] :
        \A k \in Keys \ OldApns : t[k] = EmptyRow}

Min(a, b) == IF a < b THEN a ELSE b

\* --limit: not given (0), inside the first page, inside the second page.
Limits == {0, 1, BatchSize + 1}

VARIABLES
    script,          \* which script runs
    limit,           \* --limit (0: not given; argparse default None)
    clear_first,     \* --clear (the sync scripts)
    dry_run,         \* --dry-run (the LIR update scripts)
    run_flag,        \* --run (the LIR update scripts)
    helper,          \* the numeric coercion applied to a source value
    value,           \* the source value handed to it
    coerced,         \* what the coercion returned, or that it raised
    feature,         \* the source feature handed to a transform on its own
    result,          \* what the transform and the keep test made of it
    environ,         \* the environment variables that are set (os.environ)
    startupError,    \* the exception that ended the module's initialization
    network,         \* a request to the source or the destination was sent
    pc,              \* position of the run
    source_count,    \* records the source holds
    total_count,     \* sync_parcels: total_count
    offset,          \* sync_parcels: offset
    features,        \* the fetched page
    records,         \* the batch built from the page
    total_uploaded,  \* sync_parcels: total_uploaded
    total_processed, \* update_parcels_with_lir: total_processed
    total_updated,   \* update_parcels_with_lir: total_updated
    total_failed,    \* update_parcels_with_lir (slow): total_failed
    table,           \* the destination table 'parcels'
    table0,          \* the destination table before the run
    countResult,     \* how the count query was answered
    fetchResult,     \* how the last page query was answered
    batchResult,     \* how the batch-level write of the last batch ended
    attempts,        \* individual writes attempted for the last batch
    uploaded,        \* what the last upload returned
    cleared,         \* what the pre-run clear did
    clearResult,     \* how the destination answered the clear requests
    fetched,         \* features fetched so far in the run
    handed,          \* records handed to the destination so far in the run
    sent,            \* keys handed to the destination in earlier pages
    wrote,           \* a destination write was attempted in the run
    phase,           \* 0: a single run; 1, 2, 3: the runs of a comparison
    env,             \* the answers the source and the destination gave
    ref,             \* the table a single uninterrupted run ended with
    interrupted_at,  \* offset at which the second run was stopped (-1: not)
    owners,          \* sync_owners_to_airtable: the rows of the owner file
    owner_row,       \* the row the loop over the file is at (0: before it)
    depth,           \* nested calls of create_airtable_record for the row
    status,          \* how the last POST of the row was answered
    record_id,       \* what create_airtable_record returned for the row
    owner_success_count, \* sync_owners_to_airtable: success_count
    owner_failed_count   \* sync_owners_to_airtable: failed_count

coercion == <<helper, value, coerced>>
transformed == <<feature, result>>
startup == <<environ, startupError, network>>
airtable == <<owners, owner_row, depth, status, record_id,
              owner_success_count, owner_failed_count>>
config == <<script, limit, clear_first, dry_run, run_flag, table0, coercion,
            transformed, startup, airtable>>
observed == <<countResult, fetchResult, batchResult, attempts, uploaded,
              cleared, clearResult, fetched, handed, sent, wrote>>
totals == <<total_uploaded, total_processed, total_updated, total_failed>>
rerun == <<phase, env, ref, interrupted_at>>
vars == <<script, limit, clear_first, dry_run, run_flag, helper, value,
          coerced, feature, result, environ, startupError, network, pc, source_count, total_count,
          offset, features, records, total_uploaded, total_processed,
          total_updated, total_failed, table, table0, countResult, fetchResult,
          batchResult, attempts, uploaded, cleared, clearResult, fetched, handed, sent,
          wrote, phase, env, ref, interrupted_at, owners, owner_row, depth,
          status, record_id, owner_success_count, owner_failed_count>>

----------------------------------------------------------------------------
(* Python values and the numeric coercions: safe_float, safe_int, safe_value,
   and the float(...) of sync_parcels_from_utah_api.py *)

\* The longest string of a source value.
MaxLen == 3

\* The characters of a source string: digits, the decimal point, a letter.
Chars == {"0", "1", "5", ".", "x"}
DigitOf == ("0" :> 0) @@ ("1" :> 1) @@ ("5" :> 5)

Strings == UNION {[1..n -> Chars] : n \in 0..MaxLen}

RECURSIVE Pow10(_)
Pow10(n) == IF n = 0 THEN 1 ELSE 10 * Pow10(n - 1)

\* A float is held as the integer Scale times its value: the strings have at
\* most MaxLen - 1 digits after the point.
Scale == Pow10(MaxLen - 1)

\* A Python value: None, a str, an int or a float.
PyNone == [t |-> "None", s |-> <<>>, v |-> 0]
PyStr(str) == [t |-> "str", s |-> str, v |-> 0]
PyInt(n) == [t |-> "int", s |-> <<>>, v |-> n]
PyFloat(x) == [t |-> "float", s |-> <<>>, v |-> x]

\* The values a source field may hold: null, a string, a JSON number.
SourceValues ==
    {PyNone} \cup {PyStr(str) : str \in Strings}
             \cup {PyInt(0), PyInt(15), PyFloat(0), PyFloat(3 * (Scale \div 2))}

\* bool(x)
Truthy(x) ==
    CASE x.t = "None" -> FALSE
      [] x.t = "str" -> x.s # <<>>
      [] OTHER -> x.v # 0

IsDigits(str) == str # <<>> /\ \A i \in 1..Len(str) : str[i] \in DOMAIN DigitOf

RECURSIVE DigitsValue(_)
DigitsValue(str) ==
    IF str = <<>> THEN 0
    ELSE 10 * DigitsValue(SubSeq(str, 1, Len(str) - 1)) + DigitOf[str[Len(str)]]

\* The place of the decimal point; Len(str) + 1 when there is none.
PointAt(str) ==
    IF \E i \in 1..Len(str) : str[i] = "."
    THEN CHOOSE i \in 1..Len(str) :
            str[i] = "." /\ \A j \in 1..(i - 1) : str[j] # "."
    ELSE Len(str) + 1

WholePart(str) == SubSeq(str, 1, PointAt(str) - 1)
FractionPart(str) == SubSeq(str, PointAt(str) + 1, Len(str))

\* The strings float() parses: digits, with at most one point among them.
IsFloatLiteral(str) ==
    /\ IsDigits(WholePart(str) \o FractionPart(str))
    /\ \A i \in 1..Len(str) : str[i] = "." => i = PointAt(str)

\* The strings int() parses.
IsIntLiteral(str) == IsDigits(str)

FloatValue(str) ==
    DigitsValue(WholePart(str)) * Scale
    + DigitsValue(FractionPart(str))
      * Pow10(MaxLen - 1 - Len(FractionPart(str)))

\* What a call returns: a value, or the exception it raised.
Returned(x) == [raised |-> "no", value |-> x]
Raised(exc) == [raised |-> exc, value |-> PyNone]
NotCalled == [raised |-> "not called", value |-> PyNone]

\* float(x)
ToFloat(x) ==
    CASE x.t = "None" -> Raised("TypeError")
      [] x.t = "str" -> IF IsFloatLiteral(x.s)
                        THEN Returned(PyFloat(FloatValue(x.s)))
                        ELSE Raised("ValueError")
      [] x.t = "int" -> Returned(PyFloat(x.v * Scale))
      [] OTHER -> Returned(x)

\* int(x)
ToInt(x) ==
    CASE x.t = "None" -> Raised("TypeError")
      [] x.t = "str" -> IF IsIntLiteral(x.s)
                        THEN Returned(PyInt(DigitsValue(x.s)))
                        ELSE Raised("ValueError")
      [] x.t = "float" -> Returned(PyInt(x.v \div Scale))
      [] OTHER -> Returned(x)

\* if value is None or value == '': return None
\* try: return float(value) / except (ValueError, TypeError): return None
safe_float(x) ==
    IF x = PyNone \/ x = PyStr(<<>>) THEN Returned(PyNone)
    ELSE IF ToFloat(x).raised \in {"ValueError", "TypeError"}
         THEN Returned(PyNone)
         ELSE ToFloat(x)

safe_int(x) ==
    IF x = PyNone \/ x = PyStr(<<>>) THEN Returned(PyNone)
    ELSE IF ToInt(x).raised \in {"ValueError", "TypeError"}
         THEN Returned(PyNone)
         ELSE ToInt(x)

\* update_parcels_with_lir_ultra_fast.py:
\* if value is None or value == '': return None / return value
safe_value(x) ==
    IF x = PyNone \/ x = PyStr(<<>>) THEN Returned(PyNone) ELSE Returned(x)

\* sync_parcels_from_utah_api.py:
\* float(props.get('ParcelAcreage') or 0) if props.get('ParcelAcreage') else None
size_acres(x) ==
    IF Truthy(x) THEN ToFloat(IF Truthy(x) THEN x ELSE PyInt(0))
    ELSE Returned(PyNone)

\* The coercions the scripts apply to a numeric source field.
Helpers == {"safe_float", "safe_int", "safe_value", "size_acres"}

Coerce(h, x) ==
    CASE h = "safe_float" -> safe_float(x)
      [] h = "safe_int" -> safe_int(x)
      [] h = "safe_value" -> safe_value(x)
      [] OTHER -> size_acres(x)

----------------------------------------------------------------------------
(* transform_parcel_to_supabase and extract_lir_fields on one feature: the
   geometry and the key *)

\* The values a key field of the source may hold: null, '', a parcel number.
KeyValues == {PyNone, PyStr(<<>>), PyStr(<<"1">>), PyStr(<<"5">>)}

\* feature.get('geometry'): None, or a GeoJSON geometry; the coordinates of
\* a polygon are the list of its rings.
NoGeometry == [type |-> "None", coordinates |-> <<>>]
GeometryTypes == {"Polygon", "MultiPolygon", "Point", "LineString"}
Coordinates == {<<"ring1", "ring2">>, <<"ring3", "ring1">>}
Geometries == {NoGeometry} \cup [type : GeometryTypes, coordinates : Coordinates]

SourceFeatures ==
    [PARCEL_ID : KeyValues, PARCELID : KeyValues, APN : KeyValues,
     ParcelTaxID : KeyValues, geometry : Geometries]

NoFeature == [PARCEL_ID |-> PyNone, PARCELID |-> PyNone, APN |-> PyNone,
              ParcelTaxID |-> PyNone, geometry |-> NoGeometry]

\* Faulty variant: the polygon is renamed but its coordinates are not wrapped.
NormalizeGeometryFlat(geom) ==
    IF geom # NoGeometry /\ geom.type = "Polygon"
    THEN [type |-> "MultiPolygon", coordinates |-> geom.coordinates]
    ELSE geom

\* if geom and geom.get('type') == 'Polygon':
\*     geom = {'type': 'MultiPolygon', 'coordinates': [geom['coordinates']]}
NormalizeGeometry(geom) ==
    IF geom # NoGeometry /\ geom.type = "Polygon"
    THEN [type |-> "MultiPolygon", coordinates |-> <<geom.coordinates>>]
    ELSE geom

\* a or b
Or(a, b) == IF Truthy(a) THEN a ELSE b

\* Faulty variant: the candidates are tried in the opposite order.
ResolveKeyApnFirst(f) == Or(Or(f.APN, f.PARCELID), f.PARCEL_ID)

\* props.get('PARCEL_ID') or props.get('PARCELID') or props.get('APN')
ResolveKey(f) == Or(Or(f.PARCEL_ID, f.PARCELID), f.APN)

\* safe_str(value) / str(apn) if apn else None, on None and strings.
safe_str(x) == IF x = PyNone \/ x = PyStr(<<>>) THEN PyNone ELSE x

Kept(apn, geom) == [outcome |-> "kept", apn |-> apn, geom |-> geom]
Skipped == [outcome |-> "skipped", apn |-> PyNone, geom |-> NoGeometry]
NotTransformed == [outcome |-> "none", apn |-> PyNone, geom |-> NoGeometry]

\* The record loop on one feature: the transform, then the test that keeps
\* the record.  The sync scripts build the record and keep it if it has an
\* apn; extract_lir_fields returns None without a key and its records carry
\* no geometry.
TransformFeature(s, f) ==
    IF s = "sync_api"
    THEN IF Truthy(f.ParcelTaxID)
         THEN Kept(f.ParcelTaxID, NormalizeGeometry(f.geometry))
         ELSE Skipped
    ELSE IF s = "sync_lir"
    THEN IF Truthy(ResolveKey(f))
         THEN Kept(ResolveKey(f), NormalizeGeometry(f.geometry))
         ELSE Skipped
    ELSE IF Truthy(ResolveKey(f))
         THEN Kept(safe_str(ResolveKey(f)), NoGeometry)
         ELSE Skipped

----------------------------------------------------------------------------
(* Module initialization: the credential and the client *)

EnvNames == {"VITE_SUPABASE_URL", "VITE_SUPABASE_SERVICE_ROLE_KEY",
             "SUPABASE_SERVICE_KEY", "VITE_SUPABASE_ANON_KEY"}

\* The scripts that create a destination client when they are loaded.
\*   shapefile  shapefile_to_supabase.py
\*   verify     verify_lir_data.py
ClientScripts == Scripts \cup {"shapefile", "verify"}

\* os.getenv(name): the value of a variable that is set stands for itself,
\* "None" for None.
Getenv(set, name) == IF name \in set THEN name ELSE "None"

\* a or b on the values of os.getenv
OrEnv(a, b) == IF a # "None" THEN a ELSE b

\* SUPABASE_KEY of the script.
SupabaseKey(s, set) ==
    IF s = "shapefile" THEN Getenv(set, "VITE_SUPABASE_ANON_KEY")
    ELSE IF s = "verify" THEN Getenv(set, "SUPABASE_SERVICE_KEY")
    ELSE OrEnv(OrEnv(Getenv(set, "VITE_SUPABASE_SERVICE_ROLE_KEY"),
                     Getenv(set, "SUPABASE_SERVICE_KEY")),
               Getenv(set, "VITE_SUPABASE_ANON_KEY"))

\* Faulty variant: the test of the key is missing.
KeyMissingNever(s, key) == FALSE

\* if not SUPABASE_KEY: raise ValueError("Missing Supabase key! ...")
\* shapefile_to_supabase.py and verify_lir_data.py have no such test.
KeyMissing(s, key) == s \in Scripts /\ key = "None"

\* create_client(url, key) of the supabase package refuses a url or a key
\* that is None with a SupabaseException, before any request.
CreateClientRaises(url, key) == url = "None" \/ key = "None"

\* The exception module initialization ends with, "none" when the client is
\* created.
StartupOutcome(s, set) ==
    IF KeyMissing(s, SupabaseKey(s, set)) THEN "ValueError"
    ELSE IF CreateClientRaises(Getenv(set, "VITE_SUPABASE_URL"),
                               SupabaseKey(s, set))
         THEN "SupabaseException"
         ELSE "none"

----------------------------------------------------------------------------
(* get_parcel_count *)

CountAnswers == {"count", "no_count_field", "not_json", "unreachable"}

\* data.get('count', 0): a JSON body without a count field counts as 0.
CountValue(answer, n) == IF answer = "count" THEN n ELSE 0

\* requests.get and response.json() are not guarded: they raise.
CountRaises(answer) == answer \in {"not_json", "unreachable"}

\* if limit: total_count = min(total_count, limit)
LimitedCount(n, lim) == IF lim # 0 THEN Min(n, lim) ELSE n

----------------------------------------------------------------------------
(* transform and the per-page batch *)

\* The record a feature transforms to; it carries its key, how the
\* destination will take it, and the identity of its source record.
Record(f, idx) == [apn |-> f.apn, kind |-> f.kind, idx |-> idx]

\* sync_parcels (basic API): the loop over the page with seen_apns.  A
\* feature whose transform raises is skipped by the except clause; a record
\* is kept if it has an apn that no kept record of this page has.
RECURSIVE TransformLoop(_, _, _, _, _)
TransformLoop(feats, i, off, recs, seen_apns) ==
    IF i > Len(feats) THEN recs
    ELSE LET f == feats[i] IN
         IF f.kind = "raises"
         THEN TransformLoop(feats, i + 1, off, recs, seen_apns)
         ELSE IF f.apn # NoKey /\ f.apn \notin seen_apns
              THEN TransformLoop(feats, i + 1, off,
                                 Append(recs, Record(f, off + i)),
                                 seen_apns \cup {f.apn})
              ELSE TransformLoop(feats, i + 1, off, recs, seen_apns)

\* sync_parcels (LIR API) and the LIR update scripts: the same loop with no
\* seen_apns; every transformable feature with an apn is kept.
RECURSIVE KeyedLoop(_, _, _, _)
KeyedLoop(feats, i, off, recs) ==
    IF i > Len(feats) THEN recs
    ELSE LET f == feats[i] IN
         IF f.kind # "raises" /\ f.apn # NoKey
         THEN KeyedLoop(feats, i + 1, off, Append(recs, Record(f, off + i)))
         ELSE KeyedLoop(feats, i + 1, off, recs)

\* Faulty variant: seen_apns is never filled: every keyed record is kept.
DedupedRecordsNoSeen(feats, off) == KeyedLoop(feats, 1, off, <<>>)

\* records as sync_parcels of sync_parcels_from_utah_api.py builds them:
\* seen_apns starts empty for every page.
DedupedRecords(feats, off) == TransformLoop(feats, 1, off, <<>>, {})

\* Faulty variant: 'if record.get('apn')' is not tested: every feature whose
\* transform does not raise is kept.
RECURSIVE UnkeyedLoop(_, _, _, _)
UnkeyedLoop(feats, i, off, recs) ==
    IF i > Len(feats) THEN recs
    ELSE IF feats[i].kind # "raises"
         THEN UnkeyedLoop(feats, i + 1, off,
                          Append(recs, Record(feats[i], off + i)))
         ELSE UnkeyedLoop(feats, i + 1, off, recs)

KeyedRecordsNoKeyTest(feats, off) == UnkeyedLoop(feats, 1, off, <<>>)

\* records as the other scripts build them.
KeyedRecords(feats, off) == KeyedLoop(feats, 1, off, <<>>)

\* safe_float(attrs.get('TOTAL_MKT_VALUE')): a value that is no number becomes
\* None, and the record is one the destination accepts.
SafeFloated(f) == IF f.kind = "text" THEN [f EXCEPT !.kind = "ok"] ELSE f

\* safe_value(attrs.get('TOTAL_MKT_VALUE')) of the ultra-fast script returns
\* the string as it is: the record keeps it.
BuildRecords(s, feats, off) ==
    IF s = "sync_api" THEN DedupedRecords(feats, off)
    ELSE IF s = "lir_ultra" THEN KeyedRecords(feats, off)
    ELSE KeyedRecords([i \in DOMAIN feats |-> SafeFloated(feats[i])], off)

----------------------------------------------------------------------------
(* the destination *)

\* The destination accepts the record when written on its own.
Valid(rec) == rec.kind = "ok"

\* Faulty variant: upsert without on_conflict: a row is added whatever is there.
UpsertParcelAlwaysInserts(t, rec) ==
    [t EXCEPT ![rec.apn] = [n |-> @.n + 1, others |-> rec.idx, lir |-> @.lir]]

\* Faulty variant: upsert with ignore_duplicates: an existing row is left as it is.
UpsertParcelKeepsExisting(t, rec) ==
    IF t[rec.apn].n = 0
    THEN [t EXCEPT ![rec.apn] = [n |-> 1, others |-> rec.idx, lir |-> 0]]
    ELSE t

\* upsert(record, on_conflict='apn') of a basic-API record: the record
\* carries the columns outside the LIR set; an existing row keeps the columns
\* the record does not carry, a new row gets NULL there.
UpsertParcel(t, rec) ==
    IF t[rec.apn].n = 0
    THEN [t EXCEPT ![rec.apn] = [n |-> 1, others |-> rec.idx, lir |-> 0]]
    ELSE [t EXCEPT ![rec.apn].others = rec.idx]

\* insert(record) of an LIR-API record: it carries columns of both groups;
\* a row with the same apn makes the insert fail with 'duplicate key'.
InsertAccepted(t, rec) ==
    Valid(rec) /\ (rec.apn = NoKey \/ t[rec.apn].n = 0)

InsertParcel(t, rec) ==
    [t EXCEPT ![rec.apn] = [n |-> 1, others |-> rec.idx, lir |-> rec.idx]]

\* The place of the first record that makes a batch statement fail: one the
\* destination rejects, or one whose key an earlier record of the statement
\* has (ON CONFLICT DO UPDATE cannot affect a row a second time).  0: none.
Offends(recs, i) ==
    \/ ~Valid(recs[i])
    \/ \E j \in 1..(i - 1) : recs[j].apn = recs[i].apn

FirstOffender(recs) ==
    IF \E i \in 1..Len(recs) : Offends(recs, i)
    THEN CHOOSE i \in 1..Len(recs) :
            Offends(recs, i) /\ \A j \in 1..(i - 1) : ~Offends(recs, j)
    ELSE 0

\* How a batch statement ends: "ok", or the error it raises: "column" when
\* the message names a column, "other" otherwise.  `transient' is a failure
\* that is not the records' doing (timeout, connection, payload).
BatchError(recs, transient) ==
    LET i == FirstOffender(recs) IN
    IF i # 0
    THEN IF recs[i].kind = "column" THEN "column" ELSE "other"
    ELSE IF transient THEN "other" ELSE "ok"

RECURSIVE UpsertAll(_, _, _)
UpsertAll(t, recs, i) ==
    IF i > Len(recs) THEN t
    ELSE UpsertAll(UpsertParcel(t, recs[i]), recs, i + 1)

\* The one-by-one loop of upload_batch: every record is tried, the valid
\* ones are written and counted.
RECURSIVE UpsertOneByOne(_, _, _, _)
UpsertOneByOne(t, recs, i, success_count) ==
    IF i > Len(recs) THEN [table |-> t, ret |-> success_count]
    ELSE IF Valid(recs[i])
         THEN UpsertOneByOne(UpsertParcel(t, recs[i]), recs, i + 1,
                             success_count + 1)
         ELSE UpsertOneByOne(t, recs, i + 1, success_count)

\* 'could not find' in error_msg or 'column' in error_msg
IsSchemaError(err) == err = "column"

\* upload_batch of sync_parcels_from_utah_api.py.
UploadBatchApi(t, recs, transient) ==
    IF recs = <<>>
    THEN [table |-> t, ret |-> 0, batch |-> "none", attempts |-> 0]
    ELSE LET err == BatchError(recs, transient) IN
         IF err = "ok"
         THEN [table |-> UpsertAll(t, recs, 1), ret |-> Len(recs),
               batch |-> "ok", attempts |-> 0]
         ELSE IF IsSchemaError(err)
              THEN [table |-> t, ret |-> 0, batch |-> err, attempts |-> 0]
              ELSE LET r == UpsertOneByOne(t, recs, 1, 0) IN
                   [table |-> r.table, ret |-> r.ret, batch |-> err,
                    attempts |-> Len(recs)]

\* upload_batch of sync_parcels_from_utah_lir_api.py: one insert per record,
\* no batch statement.
RECURSIVE InsertOneByOne(_, _, _, _)
InsertOneByOne(t, recs, i, success_count) ==
    IF i > Len(recs) THEN [table |-> t, ret |-> success_count]
    ELSE IF InsertAccepted(t, recs[i])
         THEN InsertOneByOne(InsertParcel(t, recs[i]), recs, i + 1,
                             success_count + 1)
         ELSE InsertOneByOne(t, recs, i + 1, success_count)

UploadBatchLir(t, recs) ==
    LET r == InsertOneByOne(t, recs, 1, 0) IN
    [table |-> r.table, ret |-> r.ret, batch |-> "none",
     attempts |-> Len(recs)]

UploadBatch(s, t, recs, transient) ==
    IF s = "sync_api" THEN UploadBatchApi(t, recs, transient)
    ELSE UploadBatchLir(t, recs)

----------------------------------------------------------------------------
(* the LIR merge: update_parcel_batch, update_parcel_batch_fast,
   batch_update_via_function *)

\* update(record).eq('apn', apn): the LIR columns of the rows with this apn.
UpdateLir(t, rec) ==
    IF t[rec.apn].n = 0 THEN t
    ELSE [t EXCEPT ![rec.apn].lir = rec.idx]

\* Faulty variant: the upserted record replaces the row: the columns it does not
\* carry become NULL.
UpsertLirReplacingRow(t, rec) ==
    [t EXCEPT ![rec.apn] = [n |-> 1, others |-> 0, lir |-> rec.idx]]

\* upsert(lir_records, on_conflict='apn', ignore_duplicates=False) of one
\* LIR record: an existing row takes the LIR columns, a missing one is
\* inserted with the LIR columns only.
UpsertLir(t, rec) ==
    IF t[rec.apn].n = 0
    THEN [t EXCEPT ![rec.apn] = [n |-> 1, others |-> 0, lir |-> rec.idx]]
    ELSE [t EXCEPT ![rec.apn].lir = rec.idx]

\* update_parcel_batch: every record is tried; it counts as a success when
\* the update returned a row, as a failure when it returned none or raised.
RECURSIVE UpdateOneByOne(_, _, _, _, _)
UpdateOneByOne(t, recs, i, success_count, failed_count) ==
    IF i > Len(recs)
    THEN [table |-> t, ret |-> success_count, failed |-> failed_count]
    ELSE IF Valid(recs[i]) /\ t[recs[i].apn].n # 0
         THEN UpdateOneByOne(UpdateLir(t, recs[i]), recs, i + 1,
                             success_count + 1, failed_count)
         ELSE UpdateOneByOne(t, recs, i + 1, success_count, failed_count + 1)

\* Faulty variant: the records that matched no row or raised are not counted.
UpdateParcelBatchDropsFailures(t, recs) ==
    LET r == UpdateOneByOne(t, recs, 1, 0, 0) IN
    [table |-> r.table, ret |-> r.ret, failed |-> 0,
     batch |-> "none", attempts |-> Len(recs)]

UpdateParcelBatch(t, recs) ==
    LET r == UpdateOneByOne(t, recs, 1, 0, 0) IN
    [table |-> r.table, ret |-> r.ret, failed |-> r.failed,
     batch |-> "none", attempts |-> Len(recs)]

RECURSIVE UpsertLirAll(_, _, _)
UpsertLirAll(t, recs, i) ==
    IF i > Len(recs) THEN t
    ELSE UpsertLirAll(UpsertLir(t, recs[i]), recs, i + 1)

\* The fallback of update_parcel_batch_fast: every record is tried; an
\* update that does not raise counts, whether or not it matched a row.
RECURSIVE UpdateFallback(_, _, _, _)
UpdateFallback(t, recs, i, success_count) ==
    IF i > Len(recs) THEN [table |-> t, ret |-> success_count]
    ELSE IF Valid(recs[i])
         THEN UpdateFallback(UpdateLir(t, recs[i]), recs, i + 1,
                             success_count + 1)
         ELSE UpdateFallback(t, recs, i + 1, success_count)

UpdateParcelBatchFast(t, recs, transient) ==
    LET err == BatchError(recs, transient) IN
    IF err = "ok"
    THEN [table |-> UpsertLirAll(t, recs, 1), ret |-> Len(recs),
          failed |-> 0, batch |-> "ok", attempts |-> 0]
    ELSE LET r == UpdateFallback(t, recs, 1, 0) IN
         [table |-> r.table, ret |-> r.ret, failed |-> 0, batch |-> err,
          attempts |-> Len(recs)]

\* The server-side function batch_update_lir_fields(lir_data): it sets the
\* LIR columns of the rows whose apn is in lir_data and answers with the
\* number of rows it updated.
RECURSIVE UpdateLirAll(_, _, _)
UpdateLirAll(t, recs, i) ==
    IF i > Len(recs) THEN t
    ELSE UpdateLirAll(UpdateLir(t, recs[i]), recs, i + 1)

BatchUpdateLirFields(t, recs) ==
    [table |-> UpdateLirAll(t, recs, 1),
     updated_count |->
        Cardinality({k \in Apns : t[k].n # 0 /\
                        \E i \in 1..Len(recs) : recs[i].apn = k})]

\* The rpc raises when the function rejects a record or the call fails.
RpcError(recs, transient) ==
    IF \E i \in 1..Len(recs) : ~Valid(recs[i])
    THEN LET i == CHOOSE j \in 1..Len(recs) :
                     ~Valid(recs[j]) /\ \A h \in 1..(j - 1) : Valid(recs[h])
         IN IF recs[i].kind = "column" THEN "column" ELSE "other"
    ELSE IF transient THEN "other" ELSE "ok"

\* batch_update_via_function: any exception of the rpc returns 0.
BatchUpdateViaFunction(t, recs, transient) ==
    LET err == RpcError(recs, transient) IN
    IF err = "ok"
    THEN LET r == BatchUpdateLirFields(t, recs) IN
         [table |-> r.table, ret |-> r.updated_count, failed |-> 0,
          batch |-> "ok", attempts |-> 0]
    ELSE [table |-> t, ret |-> 0, failed |-> 0, batch |-> err,
          attempts |-> 0]

UpdateBatch(s, t, recs, transient) ==
    IF s = "lir_slow" THEN UpdateParcelBatch(t, recs)
    ELSE IF s = "lir_fast" THEN UpdateParcelBatchFast(t, recs, transient)
    ELSE BatchUpdateViaFunction(t, recs, transient)

----------------------------------------------------------------------------
(* shapefile_to_supabase.py *)

\* The rows of a shapefile: kind "raises" is a row without geometry or whose
\* processing raises (failed += 1; continue); a row without PARCEL_ID is
\* kept, with apn None.
ShapeRows ==
    {f \in Features : \/ f.kind \in {"ok", "rejected"}
                      \/ f.kind = "raises" /\ f.apn = NoKey}
ShapeFiles(n) == UNION {[1..m -> ShapeRows] : m \in 0..n}

\* gdf = gpd.read_file(shapefile_path); if limit: gdf = gdf.head(limit)
HeadOfFile(gdf, lim) ==
    IF lim # 0 THEN SubSeq(gdf, 1, Min(lim, Len(gdf))) ELSE gdf

\* The loop over gdf.iterrows() from row i + 1 up to the row that fills the
\* batch, or to the end of the file.
RECURSIVE FillBatch(_, _, _)
FillBatch(gdf, i, recs) ==
    IF i >= Len(gdf) \/ Len(recs) >= BatchSize
    THEN [records |-> recs, idx |-> i]
    ELSE LET row == gdf[i + 1] IN
         IF row.kind = "raises"
         THEN FillBatch(gdf, i + 1, recs)
         ELSE FillBatch(gdf, i + 1, Append(recs, Record(row, i + 1)))

\* insert(record) of a shapefile record: the columns outside the LIR set.
InsertShape(t, rec) ==
    [t EXCEPT ![rec.apn] = [n |-> @.n + 1, others |-> rec.idx, lir |-> @.lir]]

\* try: for record in records: insert -- stops at the first insert that
\* raises; what was inserted before stays.
RECURSIVE InsertUntilError(_, _, _)
InsertUntilError(t, recs, i) ==
    IF i > Len(recs) THEN [table |-> t, raised |-> FALSE]
    ELSE IF InsertAccepted(t, recs[i])
         THEN InsertUntilError(InsertShape(t, recs[i]), recs, i + 1)
         ELSE [table |-> t, raised |-> TRUE]

\* except: for record in records: try: insert except: print
RECURSIVE InsertEach(_, _, _)
InsertEach(t, recs, i) ==
    IF i > Len(recs) THEN t
    ELSE IF InsertAccepted(t, recs[i])
         THEN InsertEach(InsertShape(t, recs[i]), recs, i + 1)
         ELSE InsertEach(t, recs, i + 1)

UploadBatchShapefile(t, recs) ==
    LET r == InsertUntilError(t, recs, 1) IN
    IF r.raised THEN InsertEach(r.table, recs, 1) ELSE r.table

----------------------------------------------------------------------------
(* clear_existing_parcels *)

\* How the destination answers rpc('truncate_parcels'), and the DELETE that
\* the LIR-API script falls back to.
TruncateAnswers == {"truncated", "no_function", "error"}
DeleteAnswers == {"deleted", "error"}

\* Nothing has been asked of the destination yet.
NoClear == [truncate |-> "none", delete |-> "none"]

\* Whether the DELETE is sent: only sync_parcels_from_utah_lir_api.py has the
\* branch, and only for an error whose text contains 'could not find'.
DeleteAsked(s, truncate) == s = "sync_lir" /\ truncate = "no_function"

\* sync_parcels_from_utah_api.py: any error of the truncate returns False.
\* sync_parcels_from_utah_lir_api.py: 'could not find' falls back to DELETE.
ClearOutcome(s, truncate, delete) ==
    IF truncate = "truncated" THEN "truncate"
    ELSE IF DeleteAsked(s, truncate)
         THEN IF delete = "deleted" THEN "delete" ELSE "failed"
         ELSE "failed"

----------------------------------------------------------------------------
(* fetch_parcels_batch *)

\* How the source answers a page query.  Everything but "features" leaves
\* fetch_parcels_batch with an empty list: "no_features" is a well-formed
\* answer without features (end of source), the others raise inside the try.
FetchAnswers == {"features", "no_features", "network_error", "timeout",
                 "http_status", "malformed"}

FetchRaises(answer) ==
    answer \in {"network_error", "timeout", "http_status", "malformed"}

\* Faulty variant: except ValueError: only the undecodable body is caught.
FetchCaughtValueErrorOnly(answer) == answer = "malformed"

\* except Exception: whatever is raised inside the try is caught.
FetchCaught(answer) == TRUE

\* What fetch_parcels_batch returns.
FetchedPage(answer, page) == IF answer = "features" THEN page ELSE <<>>

----------------------------------------------------------------------------
(* sync_parcels *)

\* Nothing has been asked of the source or the destination yet.
NoAnswers == [count |-> "none", n |-> 0, truncate |-> "none",
              delete |-> "none", pages |-> <<>>, file |-> <<>>]

\* No owner file is being synced.
NoOwners ==
    /\ owners = <<>>
    /\ owner_row = 0
    /\ depth = 0
    /\ status = "none"
    /\ record_id = "none"
    /\ owner_success_count = 0
    /\ owner_failed_count = 0

\* No value is being coerced on its own.
NoCoercion == helper = "none" /\ value = PyNone /\ coerced = NotCalled

\* No feature is being transformed on its own.
NoTransform == feature = NoFeature /\ result = NotTransformed

\* The module is initialized: the run specifications start after it, with a
\* client, and look at the requests of the run through their own variables.
Started == environ = EnvNames /\ startupError = "none" /\ network = FALSE

\* The locals of a run before its first statement.
FreshRun ==
    /\ source_count = 0
    /\ total_count = 0
    /\ offset = 0
    /\ features = <<>>
    /\ records = <<>>
    /\ total_uploaded = 0
    /\ total_processed = 0
    /\ total_updated = 0
    /\ total_failed = 0
    /\ countResult = "none"
    /\ fetchResult = "none"
    /\ batchResult = "none"
    /\ attempts = 0
    /\ uploaded = 0
    /\ cleared = "no"
    /\ clearResult = NoClear
    /\ fetched = 0
    /\ handed = 0
    /\ sent = {}
    /\ wrote = FALSE

\* The state of a run that is about to start.
StartOfRun == pc = "count" /\ FreshRun

Init ==
    /\ Started
    /\ NoTransform
    /\ NoCoercion
    /\ NoOwners
    /\ script \in Scripts
    /\ limit \in Limits
    /\ clear_first \in (IF script \in SyncScripts THEN BOOLEAN ELSE {FALSE})
    /\ dry_run \in (IF script \in LirScripts THEN BOOLEAN ELSE {FALSE})
    /\ run_flag = (script \in LirScripts /\ ~dry_run)
    /\ table \in FirstTables
    /\ table0 = table
    /\ StartOfRun
    /\ phase = 0
    /\ env = NoAnswers
    /\ ref = table
    /\ interrupted_at = -1

\* total_count = get_parcel_count(); if limit: ...
GetCountWith(answer, n) ==
    /\ pc = "count"
    /\ countResult' = answer
    /\ source_count' = n
    /\ IF CountRaises(answer)
       THEN /\ pc' = "crashed"
            /\ UNCHANGED total_count
       ELSE /\ total_count' = LimitedCount(CountValue(answer, n), limit)
            /\ pc' = IF clear_first THEN "clear" ELSE "fetch"
    /\ UNCHANGED <<config, offset, features, records, totals, table,
                   fetchResult, batchResult, attempts, uploaded, cleared, clearResult,
                   fetched, handed, sent, wrote>>

GetCount ==
    /\ phase = 0
    /\ \E answer \in CountAnswers, n \in 0..MaxCount : GetCountWith(answer, n)
    /\ UNCHANGED rerun

\* Faulty variant: the clear reports success and leaves the rows.
ClearedTableKeepsRows(t) == t

\* The table after supabase.rpc('truncate_parcels') or after
\* delete().neq('id', 0) took effect: no row is left.
ClearedTable(t) == EmptyTable

\* Faulty variant: the run goes on after a clear that failed.
AfterClearGoesOn(outcome) == "fetch"

\* if not clear_existing_parcels(): print("Failed to clear existing data.
\* Aborting."); return
AfterClear(outcome) == IF outcome = "failed" THEN "aborted" ELSE "fetch"

\* if clear_first: if not clear_existing_parcels(): return
ClearWith(truncate, delete) ==
    /\ pc = "clear"
    /\ LET outcome == ClearOutcome(script, truncate, delete) IN
        /\ cleared' = outcome
        /\ clearResult' = [truncate |-> truncate,
                           delete |-> IF DeleteAsked(script, truncate)
                                      THEN delete ELSE "none"]
        /\ pc' = AfterClear(outcome)
        /\ table' = IF outcome = "failed" THEN table ELSE ClearedTable(table)
    /\ UNCHANGED <<config, source_count, total_count, offset, features,
                   records, totals, countResult, fetchResult,
                   batchResult, attempts, uploaded, fetched, handed, sent, wrote>>

Clear ==
    /\ phase = 0
    /\ \E truncate \in TruncateAnswers, delete \in DeleteAnswers :
          ClearWith(truncate, delete)
    /\ UNCHANGED rerun

\* while offset < total_count: (the test fails) ... print the summary
LoopExit ==
    /\ pc = "fetch"
    /\ ~(offset < total_count)
    /\ pc' = "done"
    /\ UNCHANGED <<config, source_count, total_count, offset, features,
                   records, totals, table, observed, rerun>>

\* Faulty variant: a page goes from the fetch to the pause, past its upload.
AfterFetchSkipsUpload(feats) == IF feats = <<>> THEN "done" ELSE "pause"

\* Faulty variant: an empty page is asked for again instead of ending the loop.
AfterFetchRetries(feats) == IF feats = <<>> THEN "fetch" ELSE "transform"

\* if not features: print("No more features returned at offset ..."); break
\* The break leaves the while loop for the summary that follows it.
AfterFetch(feats) == IF feats = <<>> THEN "done" ELSE "transform"

\* features = fetch_parcels_batch(offset, batch_size); if not features: break
FetchWith(answer, page) ==
    /\ pc = "fetch"
    /\ offset < total_count
    /\ fetchResult' = answer
    /\ IF FetchRaises(answer) /\ ~FetchCaught(answer)
       THEN pc' = "crashed" /\ UNCHANGED features
       ELSE /\ features' = FetchedPage(answer, page)
            /\ pc' = AfterFetch(features')
    /\ fetched' = fetched + Len(features')
    /\ UNCHANGED <<config, source_count, total_count, offset, records,
                   totals, table, countResult, batchResult, attempts,
                   uploaded, cleared, clearResult, handed, sent, wrote>>

Fetch ==
    /\ phase = 0
    /\ \E answer \in FetchAnswers :
       \E page \in Bodies(answer,
                          Pages(Min(BatchSize, source_count - offset))) :
          FetchWith(answer, page)
    /\ UNCHANGED rerun

\* the loop over features that builds records
Transform ==
    /\ pc = "transform"
    /\ records' = BuildRecords(script, features, offset)
    /\ pc' = "upload"
    /\ UNCHANGED <<config, source_count, total_count, offset, features,
                   totals, table, observed, rerun>>

\* uploaded = upload_batch(records); total_uploaded += uploaded
Upload ==
    /\ pc = "upload"
    /\ script \in SyncScripts
    /\ \E transient \in BOOLEAN :
        LET r == UploadBatch(script, table, records, transient) IN
        /\ table' = r.table
        /\ uploaded' = r.ret
        /\ total_uploaded' = total_uploaded + r.ret
        /\ batchResult' = r.batch
        /\ attempts' = r.attempts
    /\ handed' = handed + Len(records)
    /\ wrote' = (wrote \/ records # <<>>)
    /\ pc' = "pause"
    /\ UNCHANGED <<config, source_count, total_count, offset, features,
                   records, total_processed, total_updated, total_failed,
                   countResult, fetchResult, cleared, clearResult, fetched, sent, rerun>>

\* The sample print of a dry run.  update_parcels_with_lir prints the value
\* safe_float returned; update_parcels_ultra_fast prints
\* float(sample.get('total_mkt_value')), which raises ValueError on a string
\* that is no number, outside every try.
SampleRaises(s, sample) == s = "lir_ultra" /\ sample.kind = "text"

\* elif dry_run and lir_records: ... if offset == 0: print the sample
SamplePrinted == dry_run /\ records # <<>> /\ offset = 0

\* Faulty variant: --run given along with --dry-run makes the run a real one.
WritesBatchRunWins(dry, recs) == (run_flag \/ ~dry) /\ recs # <<>>

\* if not dry_run and lir_records: (dry_run is args.dry_run; args.run is not
\* passed to the function)
WritesBatch(dry, recs) == ~dry /\ recs # <<>>

\* update_parcels_with_lir / update_parcels_ultra_fast:
\* total_processed += len(lir_records); the update unless dry_run
Update ==
    /\ pc = "upload"
    /\ script \in LirScripts
    /\ total_processed' = total_processed + Len(records)
    /\ IF WritesBatch(dry_run, records)
       THEN /\ \E transient \in BOOLEAN :
                LET r == UpdateBatch(script, table, records, transient) IN
                /\ table' = r.table
                /\ uploaded' = r.ret
                /\ total_updated' = total_updated + r.ret
                /\ total_failed' = total_failed + r.failed
                /\ batchResult' = r.batch
                /\ attempts' = r.attempts
            /\ handed' = handed + Len(records)
            /\ wrote' = TRUE
       ELSE /\ total_updated' = total_updated + Len(records)
            /\ UNCHANGED <<table, uploaded, total_failed, batchResult,
                           attempts, handed, wrote>>
    /\ pc' = IF SamplePrinted /\ SampleRaises(script, records[1])
             THEN "crashed" ELSE "pause"
    /\ UNCHANGED <<config, source_count, total_count, offset, features,
                   records, total_uploaded, countResult, fetchResult, cleared, clearResult,
                   fetched, sent, rerun>>

\* Faulty variant: the offset is not advanced.
NextOffsetStays(off) == off

\* offset += batch_size
NextOffset(off) == off + BatchSize

\* pbar.update(len(features)); offset += batch_size; time.sleep(0.5)
\* The page, the batch and what was observed of them are rebound by the next
\* iteration before any use.
Pause ==
    /\ pc = "pause"
    /\ offset' = NextOffset(offset)
    /\ features' = <<>>
    /\ records' = <<>>
    /\ fetchResult' = "none"
    /\ batchResult' = "none"
    /\ attempts' = 0
    /\ uploaded' = 0
    /\ sent' = sent \cup {records[i].apn : i \in 1..Len(records)}
    /\ pc' = "fetch"
    /\ UNCHANGED <<config, source_count, total_count, totals, table,
                   countResult, cleared, clearResult, fetched, handed, wrote, rerun>>

Next ==
    \/ GetCount
    \/ Clear
    \/ LoopExit
    \/ Fetch
    \/ Transform
    \/ Upload
    \/ Update
    \/ Pause

Spec == Init /\ [][Next]_vars

\* The final summary of sync_parcels:
\* print(f"  Total processed: {offset:,}")
\* print(f"  Successfully uploaded: {total_uploaded:,}")
ReportedProcessed == offset
ReportedSucceeded == total_uploaded

----------------------------------------------------------------------------
(* The numeric coercions on their own: a helper is applied to one value *)

InitCoerce ==
    /\ Started
    /\ NoTransform
    /\ NoOwners
    /\ helper \in Helpers
    /\ value \in SourceValues
    /\ coerced = NotCalled
    /\ script = "none"
    /\ limit = 0
    /\ clear_first = FALSE
    /\ dry_run = FALSE
    /\ run_flag = FALSE
    /\ table = EmptyTable
    /\ table0 = table
    /\ pc = "coerce"
    /\ FreshRun
    /\ phase = 0
    /\ env = NoAnswers
    /\ ref = table
    /\ interrupted_at = -1

\* The call of the helper on the value of the field.
CoerceValue ==
    /\ pc = "coerce"
    /\ coerced' = Coerce(helper, value)
    /\ pc' = IF coerced'.raised = "no" THEN "coerced" ELSE "raised"
    /\ UNCHANGED <<script, limit, clear_first, dry_run, run_flag, table0, airtable,
                   helper, value, transformed, startup, source_count, total_count, offset, features,
                   records, totals, table, observed, rerun>>

NextCoerce == CoerceValue

SpecCoerce == InitCoerce /\ [][NextCoerce]_vars

----------------------------------------------------------------------------
(* The transform on its own: one feature goes through the record loop *)

InitTransform ==
    /\ Started
    /\ NoCoercion
    /\ NoOwners
    /\ feature \in SourceFeatures
    /\ result = NotTransformed
    /\ script \in Scripts
    /\ limit = 0
    /\ clear_first = FALSE
    /\ dry_run = FALSE
    /\ run_flag = FALSE
    /\ table = EmptyTable
    /\ table0 = table
    /\ pc = "transform_one"
    /\ FreshRun
    /\ phase = 0
    /\ env = NoAnswers
    /\ ref = table
    /\ interrupted_at = -1

\* record = transform_parcel_to_supabase(feature); if record.get('apn'): ...
TransformOne ==
    /\ pc = "transform_one"
    /\ result' = TransformFeature(script, feature)
    /\ pc' = "transformed"
    /\ UNCHANGED <<script, limit, clear_first, dry_run, run_flag, table0, airtable,
                   coercion, feature, startup, source_count, total_count,
                   offset,
                   features, records, totals, table, observed, rerun>>

NextTransform == TransformOne

SpecTransform == InitTransform /\ [][NextTransform]_vars

----------------------------------------------------------------------------
(* A script is loaded: module initialization, then its first request *)

InitStartup ==
    /\ NoCoercion
    /\ NoOwners
    /\ NoTransform
    /\ environ \in SUBSET EnvNames
    /\ startupError = "none"
    /\ network = FALSE
    /\ script \in ClientScripts
    /\ limit = 0
    /\ clear_first = FALSE
    /\ dry_run = FALSE
    /\ run_flag = FALSE
    /\ table = EmptyTable
    /\ table0 = table
    /\ pc = "import"
    /\ FreshRun
    /\ phase = 0
    /\ env = NoAnswers
    /\ ref = table
    /\ interrupted_at = -1

\* load_dotenv(); SUPABASE_URL = ...; SUPABASE_KEY = ...; the test of the key;
\* supabase = create_client(SUPABASE_URL, SUPABASE_KEY)
LoadModule ==
    /\ pc = "import"
    /\ startupError' = StartupOutcome(script, environ)
    /\ pc' = IF startupError' = "none" THEN "ready" ELSE "failed"
    /\ UNCHANGED <<script, limit, clear_first, dry_run, run_flag, table0, airtable,
                   coercion, transformed, environ, network, source_count,
                   total_count, offset, features, records, totals, table,
                   observed, rerun>>

\* The first request of the script: the count query of the source, or the
\* select of verify_lir_data.py.
FirstRequest ==
    /\ pc = "ready"
    /\ network' = TRUE
    /\ pc' = "running"
    /\ UNCHANGED <<script, limit, clear_first, dry_run, run_flag, table0, airtable,
                   coercion, transformed, environ, startupError, source_count,
                   total_count, offset, features, records, totals, table,
                   observed, rerun>>

NextStartup == LoadModule \/ FirstRequest

SpecStartup == InitStartup /\ [][NextStartup]_vars

----------------------------------------------------------------------------
(* The LIR update scripts run from the command line: __main__ *)

\* Faulty variant: the test of the two flags is missing.
UsageErrorNever(dry, run) == FALSE

\* if not args.dry_run and not args.run: ... exit(1)
UsageError(dry, run) == ~dry /\ ~run

\* The status the process ends with: exit(1) of the usage error, and the
\* interpreter's status for an exception nothing catches.
ExitCode(p) == IF p \in {"usage", "crashed"} THEN 1 ELSE 0

InitUpdate ==
    /\ Started
    /\ NoTransform
    /\ NoCoercion
    /\ NoOwners
    /\ script \in LirScripts
    /\ limit \in {0, 1}
    /\ clear_first = FALSE
    /\ dry_run \in BOOLEAN
    /\ run_flag \in BOOLEAN
    /\ table \in FirstTables \ {EmptyTable}
    /\ table0 = table
    /\ pc = "main"
    /\ FreshRun
    /\ phase = 0
    /\ env = NoAnswers
    /\ ref = table
    /\ interrupted_at = -1

\* args = parser.parse_args(); the test of the two flags; then
\* update_parcels_with_lir(limit=args.limit, dry_run=args.dry_run)
Main ==
    /\ pc = "main"
    /\ pc' = IF UsageError(dry_run, run_flag) THEN "usage" ELSE "count"
    /\ UNCHANGED <<config, source_count, total_count, offset, features,
                   records, totals, table, observed, rerun>>

\* features = fetch_lir_batch(offset, batch_size) against the LIR source
FetchLir ==
    /\ phase = 0
    /\ \E answer \in FetchAnswers :
       \E page \in Bodies(answer,
                          LirPages(Min(BatchSize, source_count - offset))) :
          FetchWith(answer, page)
    /\ UNCHANGED rerun

NextUpdate ==
    \/ Main
    \/ GetCount
    \/ LoopExit
    \/ FetchLir
    \/ Transform
    \/ Update
    \/ Pause

SpecUpdate == InitUpdate /\ [][NextUpdate]_vars

----------------------------------------------------------------------------
(* Runs over the same source, compared *)

\* Three invocations of a sync script over one source and one table: (1) a
\* run to its end, whose table is kept in ref, (2) from the same first table,
\* a run that is stopped between batches or ends, (3) a run from the start on
\* the table that (2) left.  The source and the clear answer every run the
\* way they answered the first; a batch-level write may fail in any run.

Terminal == {"done", "aborted", "crashed"}

RerunScripts == SyncScripts \cup {"shapefile"}

InitRerun ==
    /\ Started
    /\ NoTransform
    /\ NoCoercion
    /\ NoOwners
    /\ script \in RerunScripts
    /\ limit \in {0, 1}
    /\ clear_first \in (IF script \in SyncScripts THEN BOOLEAN ELSE {FALSE})
    /\ dry_run = FALSE
    /\ run_flag = FALSE
    /\ table \in FirstTables
    /\ table0 = table
    /\ StartOfRun
    /\ phase = 1
    /\ env = NoAnswers
    /\ ref = table
    /\ interrupted_at = -1

\* The page of the loop iteration at offset off.
PageNo(off) == off \div BatchSize + 1

FirstCount ==
    /\ phase = 1
    /\ script \in SyncScripts
    /\ \E answer \in CountAnswers, n \in 0..RerunCount :
        /\ GetCountWith(answer, n)
        /\ env' = [env EXCEPT !.count = answer, !.n = n]
    /\ UNCHANGED <<phase, ref, interrupted_at>>

AgainCount ==
    /\ phase > 1
    /\ script \in SyncScripts
    /\ GetCountWith(env.count, env.n)
    /\ UNCHANGED rerun

FirstClear ==
    /\ phase = 1
    /\ \E truncate \in TruncateAnswers, delete \in DeleteAnswers :
        /\ ClearWith(truncate, delete)
        /\ env' = [env EXCEPT !.truncate = truncate, !.delete = delete]
    /\ UNCHANGED <<phase, ref, interrupted_at>>

AgainClear ==
    /\ phase > 1
    /\ ClearWith(env.truncate, env.delete)
    /\ UNCHANGED rerun

FirstFetch ==
    /\ phase = 1
    /\ \E answer \in FetchAnswers :
       \E page \in Bodies(answer,
                          RerunPages(Min(BatchSize, source_count - offset))) :
        /\ FetchWith(answer, page)
        /\ env' = [env EXCEPT
                     !.pages = Append(@, [answer |-> answer,
                                          page |-> FetchedPage(answer, page)])]
    /\ UNCHANGED <<phase, ref, interrupted_at>>

AgainFetch ==
    /\ phase > 1
    /\ PageNo(offset) <= Len(env.pages)
    /\ FetchWith(env.pages[PageNo(offset)].answer,
                 env.pages[PageNo(offset)].page)
    /\ UNCHANGED rerun

\* upload_parcels: the file is read and cut to the limit.
ReadShapefileWith(file) ==
    /\ pc = "count"
    /\ script = "shapefile"
    /\ features' = HeadOfFile(file, limit)
    /\ source_count' = Len(file)
    /\ total_count' = Len(features')
    /\ pc' = "rows"
    /\ UNCHANGED <<config, offset, records, totals, table, observed>>

FirstRead ==
    /\ phase = 1
    /\ \E file \in ShapeFiles(RerunCount) :
        /\ ReadShapefileWith(file)
        /\ env' = [env EXCEPT !.file = file]
    /\ UNCHANGED <<phase, ref, interrupted_at>>

AgainRead ==
    /\ phase > 1
    /\ ReadShapefileWith(env.file)
    /\ UNCHANGED rerun

\* upload_parcels: rows are processed until the batch is full or the file
\* ends; 'if records:' after the loop.
ProcessRows ==
    /\ pc = "rows"
    /\ LET r == FillBatch(features, offset, <<>>) IN
        /\ records' = r.records
        /\ offset' = r.idx
        /\ total_failed' = total_failed + (r.idx - offset) - Len(r.records)
        /\ pc' = IF r.records # <<>> THEN "upload" ELSE "done"
    /\ UNCHANGED <<config, source_count, total_count, features,
                   total_uploaded, total_processed, total_updated, table,
                   observed, rerun>>

\* upload_batch(records); records = []
UploadRows ==
    /\ pc = "upload"
    /\ script = "shapefile"
    /\ table' = UploadBatchShapefile(table, records)
    /\ handed' = handed + Len(records)
    /\ wrote' = TRUE
    /\ records' = <<>>
    /\ pc' = "rows"
    /\ UNCHANGED <<config, source_count, total_count, offset, features,
                   totals, countResult, fetchResult, batchResult, attempts,
                   uploaded, cleared, clearResult, fetched, sent, rerun>>

\* A process starts: module state is fresh, the table is what it is.
NewProcess ==
    /\ pc' = "count"
    /\ source_count' = 0
    /\ total_count' = 0
    /\ offset' = 0
    /\ features' = <<>>
    /\ records' = <<>>
    /\ total_uploaded' = 0
    /\ total_processed' = 0
    /\ total_updated' = 0
    /\ total_failed' = 0
    /\ countResult' = "none"
    /\ fetchResult' = "none"
    /\ batchResult' = "none"
    /\ attempts' = 0
    /\ uploaded' = 0
    /\ cleared' = "no"
    /\ clearResult' = NoClear
    /\ fetched' = 0
    /\ handed' = 0
    /\ sent' = {}
    /\ wrote' = FALSE
    /\ UNCHANGED <<config, env>>

\* The first run has ended: keep its table and start over from the first
\* table.
StartOver ==
    /\ phase = 1
    /\ pc \in Terminal
    /\ ref' = table
    /\ table' = table0
    /\ phase' = 2
    /\ NewProcess
    /\ UNCHANGED interrupted_at

\* The second run is stopped between two batches (Ctrl-C, a kill) and the
\* script is invoked again.
Interrupt ==
    /\ phase = 2
    /\ pc \in {"fetch", "rows"}
    /\ interrupted_at' = offset
    /\ phase' = 3
    /\ NewProcess
    /\ UNCHANGED <<table, ref>>

\* The second run has ended and the script is invoked again.
RunAgain ==
    /\ phase = 2
    /\ pc \in Terminal
    /\ phase' = 3
    /\ NewProcess
    /\ UNCHANGED <<table, ref, interrupted_at>>

NextRerun ==
    \/ FirstCount
    \/ AgainCount
    \/ FirstClear
    \/ AgainClear
    \/ LoopExit
    \/ FirstFetch
    \/ AgainFetch
    \/ Transform
    \/ Upload
    \/ Pause
    \/ FirstRead
    \/ AgainRead
    \/ ProcessRows
    \/ UploadRows
    \/ StartOver
    \/ Interrupt
    \/ RunAgain

SpecRerun == InitRerun /\ [][NextRerun]_vars

----------------------------------------------------------------------------
(* Properties *)

\* The batch-level write of the last batch was attempted and failed.
BatchFailed == batchResult \in {"column", "other"}

\* The records of a batch the destination accepts one at a time.
NumValid(recs) == Cardinality({i \in 1..Len(recs) : Valid(recs[i])})

\* C1: with --limit N, at most N source records are fetched and handed to
\* the destination over the whole run.
C1_LimitCapsRecords == limit # 0 => handed <= limit

\* C2: whenever the batch-level write of a non-empty batch fails, whatever
\* the error, every record of the batch is then written individually.
C2_BatchFailureFallsBack ==
    (pc = "pause" /\ BatchFailed) => attempts = Len(records)

\* C3: when the write of a whole batch of n records fails and k of them are
\* individually valid, exactly k are reported as succeeded for the batch (and
\* n - k are left as failed), and the run goes on with the next page.
C3_PartialFailureCounted ==
    (pc = "pause" /\ BatchFailed /\ script \in {"sync_api", "lir_fast"})
        => uploaded = NumValid(records)

\* C9: a page fetch never propagates an error to the run loop: when the
\* query fails (network error, timeout, HTTP status, malformed body) the
\* fetch returns an empty page, and the loop does with it exactly what it
\* does at the end of the source: it stops and changes nothing else.
C9_FetchErrorIsEmptyPage ==
    [][(pc = "fetch" /\ offset < total_count /\ FetchRaises(fetchResult'))
          => /\ features' = <<>>
             /\ pc' = "done"
             /\ UNCHANGED <<config, source_count, total_count, offset,
                            records, totals, table, fetched, handed, sent,
                            wrote, cleared>>]_vars

\* C9 witness: a run ended by a failed page query after a page was uploaded.
C9_Witness ==
    /\ pc = "done"
    /\ FetchRaises(fetchResult)
    /\ offset > 0
    /\ wrote

\* C10: when the count query cannot be answered or is answered without a
\* count, the run aborts: no clear, no page fetch, no destination write and
\* no normal summary.
C10_CountFailureAborts ==
    countResult \in {"no_count_field", "not_json", "unreachable"}
        => /\ pc # "done"
           /\ cleared = "no"
           /\ fetched = 0
           /\ ~wrote

\* The place in the page of the feature a record was built from.
Place(rec) == rec.idx - offset

\* The feature transforms to a record with a key.
Keyed(f) == f.kind # "raises" /\ f.apn # NoKey

\* The places of the page that hold the first transformable occurrence of a
\* key.
FirstKeyedPlaces ==
    {i \in 1..Len(features) :
        /\ Keyed(features[i])
        /\ \A h \in 1..(i - 1) :
              Keyed(features[h]) => features[h].apn # features[i].apn}

\* The batch holds distinct keys, in page order, and is no longer than the
\* page.
DistinctInPageOrder ==
    /\ \A i, j \in 1..Len(records) :
          i < j => /\ records[i].apn # records[j].apn
                   /\ records[i].idx < records[j].idx
    /\ \A i \in 1..Len(records) :
          /\ Place(records[i]) \in 1..Len(features)
          /\ records[i].apn = features[Place(records[i])].apn
    /\ Len(records) <= Len(features)

\* C7 (as stated): the records handed to upload_batch have distinct keys,
\* each is the first occurrence of its key in the page, in page order, and
\* they are no more than the page.
C7_FirstOccurrenceInPage ==
    (pc = "upload" /\ script = "sync_api")
        => /\ DistinctInPageOrder
           /\ \A i \in 1..Len(records) :
                 \A h \in 1..(Place(records[i]) - 1) :
                    features[h].apn # records[i].apn

\* C7 (amended): the records handed to upload_batch have distinct keys, are
\* exactly the first occurrences of each key among the features of the page
\* whose transform does not raise, in page order, and are no more than the
\* page.
C7_FirstTransformedOccurrence ==
    (pc = "upload" /\ script = "sync_api")
        => /\ DistinctInPageOrder
           /\ {Place(records[i]) : i \in 1..Len(records)} = FirstKeyedPlaces

\* C7 witness: a page with a repeated key of which one record is handed on.
C7_Witness ==
    /\ pc = "upload"
    /\ script = "sync_api"
    /\ Len(records) = 1
    /\ Len(features) = 2
    /\ features[1].apn = features[2].apn
    /\ Keyed(features[1])
    /\ Keyed(features[2])

\* C4: after an LIR merge (slow, fast, ultra-fast; batch path and one-by-one
\* fallback) every row that was there before the run is still there with the
\* same values in the columns outside the LIR merge set.
C4_MergeKeepsOtherColumns ==
    script \in LirScripts
        => \A k \in Apns :
              table0[k].n # 0
                 => /\ table[k].n = table0[k].n
                    /\ table[k].others = table0[k].others

\* C4 witness: the fast merge has rewritten the LIR columns of an existing
\* row through its batch upsert.
C4_Witness ==
    /\ script = "lir_fast"
    /\ pc = "pause"
    /\ batchResult = "ok"
    /\ \E k \in Apns : table0[k].n # 0 /\ table[k].lir # table0[k].lir

\* The destination took the record of the last upload.
Accepted(rec) ==
    \/ batchResult = "ok"
    \/ batchResult = "other" /\ Valid(rec)

\* C8 (as stated): seen_apns does not carry over: a key that was sent in an
\* earlier page and occurs in the page at hand is sent again with it, as its
\* earliest occurrence in the page, and the row then holds the values of
\* that later occurrence.
C8_LaterPageWins ==
    (script = "sync_api" /\ pc = "pause")
        => \A k \in sent :
              (\E i \in 1..Len(features) :
                    Keyed(features[i]) /\ features[i].apn = k)
                 => \E i \in 1..Len(records) :
                       /\ records[i].apn = k
                       /\ Place(records[i]) \in FirstKeyedPlaces
                       /\ table[k].others = records[i].idx

\* C8 (amended): a key that was sent in an earlier page and has a
\* transformable occurrence in the page at hand is sent again, once, as its
\* earliest transformable occurrence in the page; when the destination
\* accepts that record the row holds its values.
C8_LaterAcceptedPageWins ==
    (script = "sync_api" /\ pc = "pause")
        => \A k \in sent :
              (\E i \in 1..Len(features) :
                    Keyed(features[i]) /\ features[i].apn = k)
                 => /\ Cardinality({i \in 1..Len(records) :
                                       records[i].apn = k}) = 1
                    /\ \E i \in 1..Len(records) :
                          /\ records[i].apn = k
                          /\ Place(records[i]) \in FirstKeyedPlaces
                          /\ Accepted(records[i])
                                => table[k].others = records[i].idx

\* C8 witness: a key written by the first page is written again by the
\* second, which holds it twice.
C8_Witness ==
    /\ script = "sync_api"
    /\ pc = "pause"
    /\ offset > 0
    /\ batchResult = "ok"
    /\ Len(features) = 2
    /\ features[1].apn = features[2].apn
    /\ features[1].apn \in sent
    /\ Len(records) = 1
    /\ table[records[1].apn].others = offset + 1

\* C5: running a sync a second time over the same source leaves the table
\* as the first run left it.
C5_SecondRunChangesNothing ==
    (script \in SyncScripts /\ phase = 3 /\ interrupted_at = -1
        /\ pc \in Terminal) => table = ref

\* C5 witness: both runs wrote, and the source repeats a key across pages.
C5_Witness ==
    /\ script \in SyncScripts
    /\ phase = 3
    /\ interrupted_at = -1
    /\ pc = "done"
    /\ wrote
    /\ table # table0
    /\ Len(env.pages) = 2
    /\ env.pages[2].page # <<>>
    /\ \E i \in 1..Len(env.pages[1].page) :
          /\ Keyed(env.pages[1].page[i])
          /\ env.pages[1].page[i].apn = env.pages[2].page[1].apn
          /\ env.pages[2].page[1].kind = "ok"

\* C6 (the two API sync scripts): a run stopped between batches and invoked
\* again from the start ends with the table of one uninterrupted run.
C6_SyncRerunEqualsOneRun ==
    (script \in SyncScripts /\ phase = 3 /\ interrupted_at >= 0
        /\ pc \in Terminal) => table = ref

\* C6: a run that is interrupted after any number of completed batches and
\* invoked again from the start ends with the table of one uninterrupted run
\* over the same source.
C6_RerunEqualsOneRun ==
    (phase = 3 /\ interrupted_at >= 0 /\ pc \in Terminal) => table = ref

\* C11: in every API-driven sync or update run no record whose natural
\* identifier is missing, null or empty is passed to a destination write: a
\* feature without a key is dropped before the upload step.
C11_NoKeylessRecordWritten ==
    /\ pc \in {"upload", "pause"}
          => \A i \in 1..Len(records) : records[i].apn # NoKey
    /\ table[NoKey].n = 0

\* C11 witness: a page with a key-less feature has been uploaded by a script
\* that has no seen_apns, and the other feature of the page was written.
C11_Witness ==
    /\ script = "sync_lir"
    /\ pc = "pause"
    /\ \E i \in 1..Len(features) :
          features[i].apn = NoKey /\ features[i].kind = "ok"
    /\ Len(records) = 1
    /\ uploaded = 1

\* C12: when a page fetch inside the loop returns no records while the offset
\* is still below the total, the run stops paging at once: the same offset is
\* not fetched again, nothing more is fetched or written, and the run ends
\* with its summary, like a run that reached the total.
C12_EmptyPageEndsRun ==
    [][ /\ (pc = "fetch" /\ offset < total_count /\ features' = <<>>)
            => /\ pc' = "done"
               /\ offset' = offset
               /\ table' = table
               /\ totals' = totals
        /\ pc = "done" => UNCHANGED vars ]_vars

\* C12 witness: a run ended by an empty page after its first page, with
\* records of the source still ahead of the offset.
C12_Witness ==
    /\ pc = "done"
    /\ fetchResult = "no_features"
    /\ features = <<>>
    /\ offset > 0
    /\ offset < total_count
    /\ fetched > 0

\* C13: in a run started with the clear-first flag, when the destination
\* has no truncate operation the clear falls back to a DELETE of all rows and
\* the run proceeds instead of aborting (when that DELETE succeeds).
C13_TruncateFallsBackToDelete ==
    (clear_first /\ clearResult.truncate = "no_function")
        => /\ clearResult.delete # "none"
           /\ clearResult.delete = "deleted"
                 => (cleared = "delete" /\ pc # "aborted")

\* C14: an LIR update started with neither --dry-run nor --run exits with a
\* non-zero status before any source request or destination write, and a
\* destination write happens only in an invocation that carried --run.
C14_RunFlagRequired ==
    /\ (~dry_run /\ ~run_flag) => pc \in {"main", "usage"}
    /\ pc = "usage"
          => /\ ExitCode(pc) # 0
             /\ countResult = "none"
             /\ fetchResult = "none"
             /\ fetched = 0
             /\ handed = 0
             /\ ~wrote
             /\ table = table0
    /\ (wrote \/ handed > 0 \/ table # table0) => run_flag

\* C14 witness: the invocation without either flag has ended with the usage
\* error.
C14_Witness == ~dry_run /\ ~run_flag /\ pc = "usage"

\* The destination is never written in dry-run mode, whatever becomes of the
\* run.
C15_DryRunWritesNothing ==
    dry_run => (~wrote /\ handed = 0 /\ table = table0 /\ batchResult = "none")

\* C15: a dry run goes through every page as a real run would (no page is
\* lost to an error a real run does not have) and writes nothing to the
\* destination.
C15_DryRunFullPassNoWrite ==
    dry_run => (pc # "crashed" \/ CountRaises(countResult))
               /\ ~wrote /\ handed = 0 /\ table = table0

\* C20: once the count has succeeded, no error of a record or of a batch (a
\* transform that raises, a refused record or batch, a sample record with a
\* value that is no number) leaves the run, in real or in dry-run mode.
C20_NoErrorLeavesRun ==
    (countResult # "none" /\ ~CountRaises(countResult)) => pc # "crashed"

\* A string that parses as a number of the helper's type.
NumericString(h, x) ==
    x.t = "str" /\ IF h = "safe_int" THEN IsIntLiteral(x.s)
                   ELSE IsFloatLiteral(x.s)

\* The number such a string stands for.
ParsedNumber(h, x) ==
    IF h = "safe_int" THEN PyInt(DigitsValue(x.s))
    ELSE PyFloat(FloatValue(x.s))

\* C16: the numeric coercion helpers never raise; null and the empty string
\* give an absent value, a valid numeric string gives the parsed number, and
\* no value of a numeric field raises out of the transform.
C16_CoercionNeverRaises ==
    pc # "coerce"
        => /\ coerced.raised = "no"
           /\ (value = PyNone \/ value = PyStr(<<>>))
                 => coerced.value = PyNone
           /\ NumericString(helper, value)
                 => coerced.value = ParsedNumber(helper, value)

\* safe_float and safe_int do as the claim says, and give an absent value for
\* a string that is no number.
C16_SafeFloatAndSafeInt ==
    (pc # "coerce" /\ helper \in {"safe_float", "safe_int"})
        => /\ coerced.raised = "no"
           /\ (value = PyNone \/ value = PyStr(<<>>))
                 => coerced.value = PyNone
           /\ NumericString(helper, value)
                 => coerced.value = ParsedNumber(helper, value)
           /\ (value.t = "str" /\ ~NumericString(helper, value))
                 => coerced.value = PyNone

\* C17: the transform turns a geometry of type Polygon into a MultiPolygon
\* whose coordinate list has exactly one member, the polygon's coordinates; a
\* geometry of any other type and an absent geometry reach the record as
\* they came.
C17_PolygonWrappedOnce ==
    (pc = "transformed" /\ script \in SyncScripts /\ result.outcome = "kept")
        => IF feature.geometry # NoGeometry /\ feature.geometry.type = "Polygon"
           THEN /\ result.geom.type = "MultiPolygon"
                /\ Len(result.geom.coordinates) = 1
                /\ result.geom.coordinates[1] = feature.geometry.coordinates
           ELSE result.geom = feature.geometry

\* C17 witness: a polygon has been through the transform of a sync script.
C17_Witness ==
    /\ pc = "transformed"
    /\ script \in SyncScripts
    /\ result.outcome = "kept"
    /\ feature.geometry.type = "Polygon"
    /\ result.geom.type = "MultiPolygon"

\* The key candidates of an LIR feature, in their order, and whether one
\* holds a key.
Candidates == <<feature.PARCEL_ID, feature.PARCELID, feature.APN>>
Present(x) == x # PyNone /\ x # PyStr(<<>>)

\* C18: the key of an LIR feature is the value of the first of PARCEL_ID,
\* PARCELID, APN that is present and non-empty; a later candidate is used
\* only when every earlier one is absent or empty; the feature is skipped
\* only when all three are.
C18_KeyPriorityOrder ==
    (pc = "transformed" /\ script # "sync_api")
        => IF \E i \in 1..3 : Present(Candidates[i])
           THEN /\ result.outcome = "kept"
                /\ \E i \in 1..3 :
                      /\ Present(Candidates[i])
                      /\ \A j \in 1..(i - 1) : ~Present(Candidates[j])
                      /\ result.apn = Candidates[i]
           ELSE result.outcome = "skipped"

\* C18 witness: PARCEL_ID is absent, PARCELID is empty, and the key of the
\* kept record is the APN, which differs from nothing above it.
C18_Witness ==
    /\ pc = "transformed"
    /\ script = "lir_ultra"
    /\ feature.PARCEL_ID = PyNone
    /\ feature.PARCELID = PyStr(<<>>)
    /\ Present(feature.APN)
    /\ result.outcome = "kept"
    /\ result.apn = feature.APN

\* None of the three key variables is set.
NoKeySet ==
    environ \cap {"VITE_SUPABASE_SERVICE_ROLE_KEY", "SUPABASE_SERVICE_KEY",
                  "VITE_SUPABASE_ANON_KEY"} = {}

\* C19: when none of the service-role, service and anon key variables is
\* set, a script that uses the destination fails while it is loaded, before
\* any request to the source or the destination: the five pipeline scripts
\* with their own ValueError, the two others when the client is created.
C19_NoCredentialFailsAtStartup ==
    (NoKeySet /\ pc # "import")
        => /\ pc = "failed"
           /\ ~network
           /\ startupError = IF script \in Scripts THEN "ValueError"
                             ELSE "SupabaseException"

\* C19 witness: a script has been loaded with the url set and no key, and
\* has failed.
C19_Witness ==
    /\ NoKeySet
    /\ "VITE_SUPABASE_URL" \in environ
    /\ pc = "failed"
    /\ startupError # "none"

\* C21: in a run of sync_parcels without --limit in which no fetch and no
\* write fails, every record the source counted has been fetched in some page
\* when the run ends, whatever the lengths of the pages the source returned.
C21_EverySourceRecordFetched ==
    (/\ script \in SyncScripts
     /\ pc = "done"
     /\ limit = 0
     /\ countResult = "count"
     /\ fetchResult = "none"
     /\ total_uploaded = handed)
        => fetched = source_count

\* C22: the steps of a batch are strictly ordered and batches do not
\* overlap: a page is transformed only after its fetch, uploaded only after
\* its transform and exactly once, the pause follows the upload, and the next
\* page is fetched only after that pause, at the next offset.
C22_BatchStepsInOrder ==
    [][ /\ pc' = "transform" => pc = "fetch"
        /\ pc' = "upload"
              => (pc = "transform"
                  /\ records' = BuildRecords(script, features, offset))
        /\ pc' = "pause" => pc = "upload"
        /\ pc = "upload"
              => /\ pc' \in {"pause", "crashed"}
                 /\ (~dry_run /\ records # <<>>)
                       => handed' = handed + Len(records)
        /\ pc = "pause"
              => (pc' = "fetch" /\ offset' = offset + BatchSize)
        /\ (pc' = "fetch" /\ offset' > 0) => pc = "pause" ]_vars

\* C22 witness: the second page is about to be fetched, after the first one
\* was uploaded and the pause is over.
C22_Witness ==
    /\ script = "sync_api"
    /\ pc = "fetch"
    /\ offset = BatchSize
    /\ offset < total_count
    /\ handed > 0
    /\ total_uploaded > 0

\* C23: the processed count of the final summary of sync_parcels is the
\* number of source features fetched during the run, and the succeeded count
\* never exceeds it.
C23_SummaryCountsWhatWasFetched ==
    (script \in SyncScripts /\ pc = "done")
        => /\ ReportedProcessed = fetched
           /\ ReportedSucceeded <= ReportedProcessed

\* The succeeded count of the summary never exceeds what was fetched nor
\* what the summary reports as processed.
C23_SucceededWithinFetched ==
    script \in SyncScripts
        => (total_uploaded <= fetched /\ fetched <= offset + Len(features))

\* The fetches still ahead of a loop at offset off, and the steps a run has
\* left at most: four per page ahead (fetch, transform, upload, pause), and
\* the clear before the first of them.
PagesLeft(off) ==
    IF off >= total_count THEN 0
    ELSE (total_count - off + BatchSize - 1) \div BatchSize

StepsLeft ==
    CASE pc = "clear" -> 4 * PagesLeft(0) + 2
      [] pc = "fetch" -> 4 * PagesLeft(offset) + 1
      [] pc = "transform" -> 4 * PagesLeft(offset)
      [] pc = "upload" -> 4 * PagesLeft(offset) - 1
      [] pc = "pause" -> 4 * PagesLeft(offset) - 2
      [] OTHER -> 0

\* The paginated loops of sync_parcels_from_utah_api.py and of
\* update_parcels_with_lir.py.  The script is one sequential process: each of
\* its steps is a request that answers or times out, or a sleep that ends, so
\* a step that can be taken is taken.  The destination holds a row when the
\* run starts.
LoopScripts == {"sync_api", "lir_slow"}

InitLoop == Init /\ script \in LoopScripts /\ table # EmptyTable

SpecLoop == InitLoop /\ [][Next]_vars /\ WF_vars(Next)

\* Every step of the loop brings the run nearer to its end, an iteration stops
\* on an empty page or advances the offset by the batch size, and the offsets
\* fetched are 0, B, 2B, ... below total_count, none of them twice.
LoopAdvances ==
    [][ /\ pc \in {"clear", "fetch", "transform", "upload", "pause"}
              => (StepsLeft' < StepsLeft /\ StepsLeft' >= 0)
        /\ (pc = "fetch" /\ offset < total_count)
              => /\ offset % BatchSize = 0
                 /\ offset \div BatchSize < PagesLeft(0)
                 /\ pc' # "fetch"
                 /\ features' = <<>> => pc' = "done"
        /\ pc = "pause" => (offset' = offset + BatchSize /\ pc' = "fetch")
        /\ pc # "pause" => offset' = offset
        /\ total_count' # total_count => pc = "count" ]_vars

\* C24: once the count is known the loop terminates: an iteration stops on an
\* empty page or advances the offset by the batch size, the offsets fetched
\* are 0, B, 2B, ... below total_count, none of them twice, so that at most
\* ceil(total_count / B) fetches occur, and the run reaches its end.
C24_LoopTerminates == LoopAdvances /\ <>(pc \in Terminal)

\* C24 witness: both fetches of a run of two pages are done, and the loop
\* has ended by its while test at the second multiple of the batch size.
C24_Witness ==
    /\ pc = "done"
    /\ fetchResult = "none"
    /\ offset = 2 * BatchSize
    /\ PagesLeft(0) = 2

\* The records of the batch whose update matches a destination row: the
\* write does not raise and a row with the record's apn exists.
Matched ==
    {i \in 1..Len(records) :
        Valid(records[i]) /\ table[records[i].apn].n # 0}

C26_FastEqualsSlow ==
    [][ (script = "lir_fast" /\ pc = "upload" /\ ~dry_run)
            => /\ table' = UpdateParcelBatch(table, records).table
               /\ \A k \in Keys : table[k].n = 0 => table'[k].n = 0 ]_vars

\* The slow update and the server-side function of the ultra-fast update
\* create no row, in no run.
C26_SlowCreatesNoRow ==
    (script \in {"lir_slow", "lir_ultra"})
        => \A k \in Keys : table0[k].n = 0 => table[k].n = 0

\* C27: an LIR update script invoked with both --dry-run and --run runs as a
\* dry run: it is no usage error, no batch is handed to the destination, no
\* write is made and the table stays as the run found it.
C27_DryRunWinsOverRun ==
    (script \in LirScripts /\ dry_run /\ run_flag /\ pc # "main")
        => /\ pc # "usage"
           /\ ~wrote
           /\ handed = 0
           /\ total_failed = 0
           /\ table = table0

\* C27 witness: a run with both flags has fetched and processed a page with
\* records and has ended.
C27_Witness ==
    /\ script \in LirScripts
    /\ dry_run
    /\ run_flag
    /\ pc = "done"
    /\ total_processed > 0
    /\ total_updated = total_processed

\* C28: a requested clear that fails aborts the run at once: no page was or
\* is fetched, no record is handed over or written, and the table is as the
\* failed clear left it, which is as the run found it.
C28_FailedClearAborts ==
    /\ cleared = "failed"
          => /\ pc = "aborted"
             /\ clear_first
             /\ fetched = 0
             /\ fetchResult = "none"
             /\ handed = 0
             /\ ~wrote
             /\ table = table0
    /\ pc = "aborted" => cleared = "failed"

\* C28 witness: the clear of a table with a row has failed, for the LIR sync
\* after the DELETE it fell back to.
C28_Witness ==
    /\ script = "sync_lir"
    /\ cleared = "failed"
    /\ clearResult = [truncate |-> "no_function", delete |-> "error"]
    /\ pc = "aborted"
    /\ table # EmptyTable

\* The natural keys of the destination rows, and the keys of the source
\* records the run has fetched so far: those of the earlier pages' records
\* and those of the page at hand.
DestinationKeys == {k \in Keys : table[k].n # 0}

FetchedKeys ==
    sent \cup {features[i].apn : i \in 1..Len(features)}
         \cup {records[i].apn : i \in 1..Len(records)}

ClearSucceeded == cleared \in {"truncate", "delete"}

\* C29: in a run with a pre-run clear the clear is done before the first
\* fetch and before any write, once, and in every state after a successful
\* clear the keys of the destination rows are keys of source records the run
\* has fetched so far.
C29_ClearFirstThenOnlyFetchedKeys ==
    /\ [](ClearSucceeded => (clear_first /\ DestinationKeys \subseteq FetchedKeys))
    /\ [][ /\ pc' = "clear" => (pc = "count" /\ clear_first)
           /\ (pc = "count" /\ clear_first) => pc' \in {"clear", "crashed"}
           /\ cleared' # cleared
                 => /\ pc = "clear"
                    /\ cleared = "no"
                    /\ fetched = 0
                    /\ fetchResult = "none"
                    /\ ~wrote
           /\ (table' # table /\ pc # "clear")
                 => (pc = "upload" /\ (clear_first => ClearSucceeded)) ]_vars

\* C29 witness: after a successful clear of a table that had a row for A, a
\* page without A was written: the table holds a row and none for A.
C29_Witness ==
    /\ ClearSucceeded
    /\ table0["A"].n # 0
    /\ table["A"].n = 0
    /\ DestinationKeys # {}
    /\ pc = "pause"

----------------------------------------------------------------------------
(* sync_owners_to_airtable.py: the loop over the owner file and
   create_airtable_record *)

\* The longest owner file.
MaxOwners == 2

\* The nested calls of create_airtable_record the interpreter allows before a
\* further call raises RecursionError (sys.getrecursionlimit(), less the
\* frames in use).
RecursionLimit == 3

\* What the sync of the owner file leaves alone: the parcel runs.
parcels == <<script, limit, clear_first, dry_run, run_flag, table0, coercion,
             transformed, startup, source_count, total_count, offset,
             features, records, totals, table, observed, rerun>>

\* A row of the owner file: with an APN and an owner name, or lacking one.
OwnerRows == {"owner", "missing"}

RECURSIVE OwnerFilesOfLen(_)
OwnerFilesOfLen(n) ==
    IF n = 0 THEN {<<>>}
    ELSE {Append(f, r) : f \in OwnerFilesOfLen(n - 1), r \in OwnerRows}

OwnerFiles == UNION {OwnerFilesOfLen(n) : n \in 0..MaxOwners}

\* How a POST ends: response.status_code 200, 429 or another one, or an
\* exception raised inside the try (no connection, a body without 'id').
PostAnswers == {"200", "429", "other", "exception"}

\* Faulty variant: a rate-limited POST is given up like any other error.
AfterAnswerNoRetry(answer) == "returned"

\* if response.status_code == 200: return ... elif response.status_code ==
\* 429: time.sleep(30); return create_airtable_record(...) else: return None
AfterAnswer(answer) == IF answer = "429" THEN "sleep" ELSE "returned"

\* return response.json()['id'] / return None
RecordId(answer) == IF answer = "200" THEN "id" ELSE "None"

\* The retry is a nested call: at the recursion limit the call raises
\* RecursionError inside the try of the frame that made it.
CallRaises(d) == d >= RecursionLimit

InitAirtable ==
    /\ Started
    /\ NoTransform
    /\ NoCoercion
    /\ script = "owners"
    /\ limit = 0
    /\ clear_first = FALSE
    /\ dry_run = FALSE
    /\ run_flag = FALSE
    /\ table = EmptyTable
    /\ table0 = table
    /\ pc = "row"
    /\ FreshRun
    /\ phase = 0
    /\ env = NoAnswers
    /\ ref = table
    /\ interrupted_at = -1
    /\ owners \in OwnerFiles
    /\ owner_row = 0
    /\ depth = 0
    /\ status = "none"
    /\ record_id = "none"
    /\ owner_success_count = 0
    /\ owner_failed_count = 0

\* for idx, row in df.iterrows(): if pd.isna(apn) or pd.isna(owner_name):
\* failed_count += 1; continue.  Otherwise create_airtable_record(...) is
\* called.
NextRow ==
    /\ pc = "row"
    /\ owner_row < Len(owners)
    /\ owner_row' = owner_row + 1
    /\ IF owners[owner_row'] = "missing"
       THEN /\ owner_failed_count' = owner_failed_count + 1
            /\ pc' = "row"
            /\ UNCHANGED depth
       ELSE /\ depth' = 1
            /\ pc' = "post"
            /\ UNCHANGED owner_failed_count
    /\ UNCHANGED <<owners, status, record_id, owner_success_count>>
    /\ UNCHANGED parcels

\* response = requests.post(url, json=record, headers=headers) and the test
\* of its status
Post ==
    /\ pc = "post"
    /\ \E answer \in PostAnswers :
        /\ status' = answer
        /\ pc' = AfterAnswer(answer)
        /\ record_id' = IF pc' = "returned" THEN RecordId(answer) ELSE "none"
    /\ UNCHANGED <<owners, owner_row, depth, owner_success_count,
                   owner_failed_count>>
    /\ UNCHANGED parcels

\* time.sleep(30); return create_airtable_record(...): the nested call, or
\* the RecursionError that except Exception turns into return None.
Retry ==
    /\ pc = "sleep"
    /\ IF CallRaises(depth)
       THEN /\ record_id' = "None"
            /\ pc' = "returned"
            /\ UNCHANGED depth
       ELSE /\ depth' = depth + 1
            /\ pc' = "post"
            /\ UNCHANGED record_id
    /\ UNCHANGED <<owners, owner_row, status, owner_success_count,
                   owner_failed_count>>
    /\ UNCHANGED parcels

\* if record_id: success_count += 1 else: failed_count += 1
CountRecord ==
    /\ pc = "returned"
    /\ IF record_id = "id"
       THEN /\ owner_success_count' = owner_success_count + 1
            /\ UNCHANGED owner_failed_count
       ELSE /\ owner_failed_count' = owner_failed_count + 1
            /\ UNCHANGED owner_success_count
    /\ pc' = "rate"
    /\ UNCHANGED <<owners, owner_row, depth, status, record_id>>
    /\ UNCHANGED parcels

\* time.sleep(0.21); the locals of the call are gone with it
RateLimit ==
    /\ pc = "rate"
    /\ depth' = 0
    /\ status' = "none"
    /\ record_id' = "none"
    /\ pc' = "row"
    /\ UNCHANGED <<owners, owner_row, owner_success_count, owner_failed_count>>
    /\ UNCHANGED parcels

\* the loop is through the file: print("Sync Complete!") ...
Summary ==
    /\ pc = "row"
    /\ owner_row = Len(owners)
    /\ pc' = "done"
    /\ UNCHANGED airtable
    /\ UNCHANGED parcels

NextAirtable ==
    \/ NextRow
    \/ Post
    \/ Retry
    \/ CountRecord
    \/ RateLimit
    \/ Summary

SpecAirtable == InitAirtable /\ [][NextAirtable]_vars

\* C30 (as stated): create_airtable_record returns an id only after a POST
\* answered 200, and it returns at all only after a POST that was answered
\* with something other than 429.
C30_ReturnsOnlyAfterNon429 ==
    pc = "returned"
        => /\ record_id = "id" => status = "200"
           /\ status # "429"

\* C30 (amended): create_airtable_record returns an id exactly when its last
\* POST was answered 200; a POST answered 429 is retried for the same record
\* by a nested call, and only a 429 is retried; the nesting ends at the
\* interpreter's recursion limit, where the call returns None although the
\* last answer was 429.
C30_RetriesUpToRecursionLimit ==
    /\ depth <= RecursionLimit
    /\ pc = "returned"
          => /\ record_id = "id" <=> status = "200"
             /\ record_id \in {"id", "None"}
             /\ status = "429" => (depth = RecursionLimit /\ record_id = "None")
    /\ pc = "sleep" => status = "429"
    /\ (pc = "post" /\ depth > 1) => status = "429"
    /\ owner_success_count + owner_failed_count
          = (IF pc \in {"post", "sleep", "returned"} THEN owner_row - 1
             ELSE owner_row)

\* C30 witness: every POST for a record was answered 429 up to the recursion
\* limit, and the call has returned None.
C30_Witness ==
    /\ pc = "returned"
    /\ status = "429"
    /\ depth = RecursionLimit
    /\ record_id = "None"

====
